---- MODULE Spec2Model ----
(***************************************************************************)
(* Model of OptimalTour.py: the input validator (parse_input), the second  *)
(* parse that builds the problem tables (OptimalTour.__init__), the tour   *)
(* scorer (OptimalTour.parse_output) and the result recording of do_run.   *)
(*                                                                         *)
(* Text is modelled as str.split('\n') sees it: a sequence of lines, each  *)
(* line a sequence of tokens.  A token is a record of what the program     *)
(* asks of its string (see Tokens and lines); the token WS stands for a    *)
(* run of blanks, which str.split() drops.  Python lists are 0-based; the  *)
(* model's sequences are 1-based, so list[i] is seq[i + 1].  A float is a  *)
(* binary64 number: sums are rounded as the machine rounds them.           *)
(*                                                                         *)
(* Variables: stdin is the text of the input file, phase the grader's      *)
(* position (new, rejected, accepted, scored), otp the OptimalTour object, *)
(* verdict the exception of parse_input, out the text given to the scorer, *)
(* score the outcome of parse_output and recorded the (val, comment) pair  *)
(* written to result.out (NoResult when there is no such file).  built and *)
(* reused are history variables: the object as the constructor returned    *)
(* it, and whether it has been through a run before.                       *)
(***************************************************************************)
EXTENDS Integers, Sequences, FiniteSets, TLC

VARIABLES stdin, phase, otp, built, verdict, reused, out, score, recorded

vars == <<stdin, phase, otp, built, verdict, reused, out, score, recorded>>

(* ------------------------------------------------------------------ *)
(* Bounds of the model and constants of the program                    *)
(* ------------------------------------------------------------------ *)
MaxLines == 4
MaxSite == 2
MaxDay == 2
MaxVisits == 2

max_n_site == 200
max_n_day == 10
MaxDesiredTime == 1440
MaxHour == 23
MinutesPerHour == 60

(* ------------------------------------------------------------------ *)
(* Tokens and lines                                                    *)
(* ------------------------------------------------------------------ *)
\* Python floats are IEEE 754 binary64 numbers.  A finite float is the
\* number (-1)^neg * m * 2^e, where the natural number m < 2^53 is written
\* as its digits in base 2^15, lowest first, no leading zero (<<>> is 0),
\* and m is odd, or m is 0 and e is 0: equal floats are equal records, and
\* 0.0 and -0.0 differ in neg.  The sum of two floats is the float nearest
\* to their exact sum, the even one of two nearest.
LimbBits == 15
Base == 2 ^ LimbBits
MantBits == 53
MaxExp == 1024

\* natural numbers of any size: digits in base 2^15, lowest first
RECURSIVE Trim(_)
Trim(a) == IF a = <<>> \/ a[Len(a)] # 0 THEN a ELSE Trim(SubSeq(a, 1, Len(a) - 1))
RECURSIVE Limbs(_)
Limbs(n) == IF n = 0 THEN <<>> ELSE <<n % Base>> \o Limbs(n \div Base)
Limb(a, i) == IF i <= Len(a) THEN a[i] ELSE 0
RECURSIVE BitLenInt(_)
BitLenInt(n) == IF n = 0 THEN 0 ELSE 1 + BitLenInt(n \div 2)
BitLen(a) == IF a = <<>> THEN 0 ELSE LimbBits * (Len(a) - 1) + BitLenInt(a[Len(a)])
RECURSIVE AddFrom(_, _, _, _)
AddFrom(a, b, i, carry) ==
    IF i > Len(a) /\ i > Len(b) THEN (IF carry = 0 THEN <<>> ELSE <<carry>>)
    ELSE LET s == Limb(a, i) + Limb(b, i) + carry
         IN <<s % Base>> \o AddFrom(a, b, i + 1, s \div Base)
BAdd(a, b) == AddFrom(a, b, 1, 0)
\* a - b, for a >= b
RECURSIVE SubFrom(_, _, _, _)
SubFrom(a, b, i, borrow) ==
    IF i > Len(a) THEN <<>>
    ELSE LET s == Limb(a, i) - Limb(b, i) - borrow
         IN <<(s + Base) % Base>> \o SubFrom(a, b, i + 1, IF s < 0 THEN 1 ELSE 0)
BSub(a, b) == Trim(SubFrom(a, b, 1, 0))
RECURSIVE LessFrom(_, _, _)
LessFrom(a, b, i) ==
    IF i = 0 THEN FALSE
    ELSE IF a[i] # b[i] THEN a[i] < b[i] ELSE LessFrom(a, b, i - 1)
BLess(a, b) == IF Len(a) # Len(b) THEN Len(a) < Len(b) ELSE LessFrom(a, b, Len(a))
\* a * f, for 0 < f <= Base
RECURSIVE MulFrom(_, _, _, _)
MulFrom(a, f, i, carry) ==
    IF i > Len(a) THEN Limbs(carry)
    ELSE LET p == a[i] * f + carry
         IN <<p % Base>> \o MulFrom(a, f, i + 1, p \div Base)
BMul(a, f) == MulFrom(a, f, 1, 0)
\* a * 2^d and the whole part of a / 2^d
Shl(a, d) ==
    IF a = <<>> \/ d = 0 THEN a
    ELSE [i \in 1..(d \div LimbBits) |-> 0] \o BMul(a, 2 ^ (d % LimbBits))
Shr(a, d) ==
    LET q == d \div LimbBits
        r == d % LimbBits
        n == Len(a) - q
    IN IF d = 0 THEN a
       ELSE IF n <= 0 THEN <<>>
       ELSE Trim([i \in 1..n |-> (a[q + i] \div (2 ^ r))
                                 + (Limb(a, q + i + 1) % (2 ^ r)) * (2 ^ (LimbBits - r))])
\* bit i of a (bit 0 is the lowest), and whether a bit below bit i is set
Bit(a, i) == (Limb(a, (i \div LimbBits) + 1) \div (2 ^ (i % LimbBits))) % 2
AnyBelow(a, i) ==
    \/ \E j \in 1..(i \div LimbBits) : Limb(a, j) # 0
    \/ Limb(a, (i \div LimbBits) + 1) % (2 ^ (i % LimbBits)) # 0
\* the number of zero bits at the low end of a # 0
RECURSIVE LowZerosInt(_)
LowZerosInt(n) == IF n % 2 = 1 THEN 0 ELSE 1 + LowZerosInt(n \div 2)
LowZeros(a) ==
    LET j == CHOOSE j \in 1..Len(a) : a[j] # 0 /\ \A i \in 1..(j - 1) : a[i] = 0
    IN LimbBits * (j - 1) + LowZerosInt(a[j])
\* quotient (q, not trimmed) and remainder r of a by d, for 0 < d <= Base
RECURSIVE DivSmall(_, _)
DivSmall(a, d) ==
    IF a = <<>> THEN [q |-> <<>>, r |-> 0]
    ELSE LET t == DivSmall(Tail(a), d)
             cur == t.r * Base + Head(a)
         IN [q |-> <<cur \div d>> \o t.q, r |-> cur % d]

Fin(neg, m, e) == [k |-> "fin", neg |-> neg, m |-> m, e |-> e]
FInf == [k |-> "inf", neg |-> FALSE, m |-> <<>>, e |-> 0]
FNegInf == [k |-> "-inf", neg |-> TRUE, m |-> <<>>, e |-> 0]
FNan == [k |-> "nan", neg |-> FALSE, m |-> <<>>, e |-> 0]
FZero == Fin(FALSE, <<>>, 0)

\* the record of (-1)^neg * m * 2^e, for m < 2^53
Canon(neg, m, e) ==
    IF m = <<>> THEN Fin(neg, <<>>, 0)
    ELSE IF m[1] % 2 = 1 THEN Fin(neg, m, e)
    ELSE LET z == LowZeros(m) IN Fin(neg, Shr(m, z), e + z)
\* the float nearest to (-1)^neg * (m + t) * 2^e, where 0 < t < 1 if sticky
\* and t = 0 if not: the bits of m below the highest 53 are dropped, and the
\* rest goes up by one when they are more than half a unit, or half a unit
\* and the rest is odd; a result of 2^1024 or more is inf
Round(neg, m, e, sticky) ==
    LET d == IF LimbBits * Len(m) <= MantBits THEN 0 ELSE BitLen(m) - MantBits
        r == IF d <= 0 THEN Canon(neg, m, e)
             ELSE LET up == /\ Bit(m, d - 1) = 1
                            /\ (sticky \/ AnyBelow(m, d - 1) \/ Bit(m, d) = 1)
                      kept == Shr(m, d)
                  IN Canon(neg, IF up THEN BAdd(kept, <<1>>) ELSE kept, e + d)
    IN IF LimbBits * Len(r.m) + r.e <= MaxExp THEN r
       ELSE IF BitLen(r.m) + r.e > MaxExp THEN (IF neg THEN FNegInf ELSE FInf)
       ELSE r

\* float(s) of a numeral s that denotes (-1)^neg * n / den, 0 < den <= 2^15:
\* the float nearest to it.  FDec(FALSE, 1, 10) is 0.1, FDec(FALSE, 3, 2) 1.5.
FDec(neg, n, den) ==
    IF n = 0 THEN Fin(neg, <<>>, 0)
    ELSE IF den = 1 THEN Canon(neg, Limbs(n), 0)
    ELSE LET s == MantBits + 3 + BitLenInt(den) - BitLenInt(n)
             d == DivSmall(Shl(Limbs(n), s), den)
         IN Round(neg, Trim(d.q), 0 - s, d.r # 0)

\* the position above the highest bit of a finite float, and |a| < |b|
Top(a) == BitLen(a.m) + a.e
MagLess(a, b) ==
    IF b.m = <<>> THEN FALSE
    ELSE IF a.m = <<>> THEN TRUE
    ELSE IF Top(a) # Top(b) THEN Top(a) < Top(b)
    ELSE LET e == IF a.e <= b.e THEN a.e ELSE b.e
         IN BLess(Shl(a.m, a.e - e), Shl(b.m, b.e - e))

\* a < b on floats: every comparison with nan is False
FLess(a, b) ==
    /\ a.k # "nan" /\ b.k # "nan"
    /\ IF a.k = "inf" THEN FALSE
       ELSE IF a.k = "-inf" THEN b.k # "-inf"
       ELSE IF b.k = "inf" THEN TRUE
       ELSE IF b.k = "-inf" THEN FALSE
       ELSE IF a.neg # b.neg THEN a.neg /\ (a.m # <<>> \/ b.m # <<>>)
       ELSE IF a.neg THEN MagLess(b, a) ELSE MagLess(a, b)

\* a + b on finite floats: the exact sum, rounded.  A term smaller than a
\* quarter of the last bit of the other leaves the other as it is.
Far == MantBits + 7
FAddFin(a, b) ==
    IF a.m = <<>> /\ b.m = <<>> THEN Fin(a.neg /\ b.neg, <<>>, 0)
    ELSE IF a.m = <<>> THEN b
    ELSE IF b.m = <<>> THEN a
    ELSE IF a.e = b.e /\ a.neg = b.neg /\ Len(a.m) = 1 /\ Len(b.m) = 1
         THEN Round(a.neg, Limbs(a.m[1] + b.m[1]), a.e, FALSE)
    ELSE IF Top(a) - Top(b) > Far THEN a
    ELSE IF Top(b) - Top(a) > Far THEN b
    ELSE LET e == IF a.e <= b.e THEN a.e ELSE b.e
             x == Shl(a.m, a.e - e)
             y == Shl(b.m, b.e - e)
         IN IF a.neg = b.neg THEN Round(a.neg, BAdd(x, y), e, FALSE)
            ELSE IF x = y THEN FZero
            ELSE IF BLess(x, y) THEN Round(b.neg, BSub(y, x), e, FALSE)
            ELSE Round(a.neg, BSub(x, y), e, FALSE)

\* a + b on floats
FAdd(a, b) ==
    IF a.k = "nan" \/ b.k = "nan" THEN FNan
    ELSE IF a.k = "inf" THEN (IF b.k = "-inf" THEN FNan ELSE FInf)
    ELSE IF a.k = "-inf" THEN (IF b.k = "inf" THEN FNan ELSE FNegInf)
    ELSE IF b.k # "fin" THEN b
    ELSE FAddFin(a, b)

\* A token is a record of what the program asks of its string:
\*   w     the spelling, for a token that is no number ("" for a number,
\*         or its sign when it is written with one);
\*   k     "int" when int() accepts it (float() then accepts it too),
\*         "float" when only float() accepts it and the value is finite,
\*         "inf", "-inf", "nan" when float() gives that value,
\*         "word" when both raise ValueError;
\*   n     the value of int(); with den, the number n/den that a numeral
\*         denotes (den a power of ten, at most 10^4);
\*   lead  whether its first character is a digit.
\* Num(12) is "12" and Num(0 - 3) is "-3"; Plus(1) is "+1" and NegZero is
\* "-0"; Word("site") is a word, DigitWord("1abc") a word that starts with a
\* digit; Real(TRUE, 15, 10) is "1.5", Real(FALSE, 5, 10) is ".5",
\* Real(TRUE, 1000, 1) is "1e3" or "1000.0", RealInf is "inf".
Num(n) == [w |-> "", n |-> n, den |-> 1, lead |-> n >= 0, k |-> "int"]
Plus(n) == [w |-> "+", n |-> n, den |-> 1, lead |-> FALSE, k |-> "int"]
NegZero == [w |-> "-", n |-> 0, den |-> 1, lead |-> FALSE, k |-> "int"]
Word(s) == [w |-> s, n |-> 0, den |-> 1, lead |-> FALSE, k |-> "word"]
DigitWord(s) == [w |-> s, n |-> 0, den |-> 1, lead |-> TRUE, k |-> "word"]
Real(lead, n, den) == [w |-> "", n |-> n, den |-> den, lead |-> lead, k |-> "float"]
RealInf == [w |-> "", n |-> 0, den |-> 1, lead |-> FALSE, k |-> "inf"]
RealNegInf == [w |-> "", n |-> 0, den |-> 1, lead |-> FALSE, k |-> "-inf"]
RealNan == [w |-> "", n |-> 0, den |-> 1, lead |-> FALSE, k |-> "nan"]
WS == Word(" ")

\* str.split(): the tokens of a line, runs of blanks dropped
IsTok(t) == t # WS
Split(line) == SelectSeq(line, IsTok)

\* ln[0][0].isdigit()
IsDigitLeading(t) == t.lead

\* int(s) succeeds, with value IntOf; otherwise it raises ValueError
IsInt(t) == t.k = "int"
IntOf(t) == t.n

\* float(s) succeeds, with value FloatOf; otherwise it raises ValueError
IsFloat(t) == t.k # "word"
FloatOf(t) ==
    IF t.k = "inf" THEN FInf
    ELSE IF t.k = "-inf" THEN FNegInf
    ELSE IF t.k = "nan" THEN FNan
    ELSE IF t.n < 0 THEN FDec(TRUE, 0 - t.n, t.den)
    ELSE FDec(t.w = "-", t.n, t.den)

Header1 == <<Word("site"), Word("avenue"), Word("street"), Word("desiredtime"), Word("value")>>
Header2 == <<Word("site"), Word("day"), Word("beginhour"), Word("endhour")>>

SiteLine(site, avenue, street, desired_time, value) ==
    <<Num(site), Num(avenue), Num(street), Num(desired_time), Num(value)>>
WindowLine(site, day, begin_hour, end_hour) ==
    <<Num(site), Num(day), Num(begin_hour), Num(end_hour)>>

Max(a, b) == IF a >= b THEN a ELSE b
Abs(a) == IF a >= 0 THEN a ELSE 0 - a

(* ------------------------------------------------------------------ *)
(* Exceptions: msg names the message, lnum is the line number the      *)
(* message carries (0 when it carries none), arg the other numbers it  *)
(* formats, in order.                                                  *)
(* ------------------------------------------------------------------ *)
NoExn == [msg |-> "", lnum |-> 0, arg |-> <<>>]
AtLine(msg, lnum) == [msg |-> msg, lnum |-> lnum, arg |-> <<>>]
WithArg(msg, arg) == [msg |-> msg, lnum |-> 0, arg |-> arg]
Plain(msg) == [msg |-> msg, lnum |-> 0, arg |-> <<>>]

(* ------------------------------------------------------------------ *)
(* parse_input: the validator                                          *)
(* ------------------------------------------------------------------ *)
ScanInit ==
    [state |-> 0, n_site |-> 0, n_day |-> 0, sites |-> {}, locations |-> {},
     sitedays |-> {}, exn |-> NoExn]

Raise(s, e) == [s EXCEPT !.exn = e]

\* state == 0: the first header
ScanHeader1(s, lnum, ln) ==
    IF ln # Header1 THEN Raise(s, AtLine("Invalid line", lnum))
    ELSE [s EXCEPT !.state = 1]

\* state == 1, digit-leading line: a site record
ScanSite(s, lnum, ln) ==
    IF Len(ln) # 5 THEN Raise(s, AtLine("Invalid line", lnum))
    ELSE IF (\E i \in 1..4 : ~IsInt(ln[i])) \/ ~IsFloat(ln[5])
         THEN Raise(s, Plain("ValueError"))
    ELSE
      LET site == IntOf(ln[1])
          avenue == IntOf(ln[2])
          street == IntOf(ln[3])
          desired_time == IntOf(ln[4])
          value == FloatOf(ln[5])
          n_site == Max(s.n_site, site)
          s1 == [s EXCEPT !.n_site = n_site]
      IN IF n_site > max_n_site THEN Raise(s1, WithArg("#site is too large", <<n_site>>))
         ELSE IF ~(1 <= site) THEN Raise(s1, AtLine("Invalid site id", lnum))
         ELSE IF ~(1 <= desired_time /\ desired_time <= MaxDesiredTime)
              THEN Raise(s1, AtLine("Invalid desired time", lnum))
         ELSE IF ~FLess(FZero, value) THEN Raise(s1, AtLine("Invalid value", lnum))
         ELSE IF site \in s.sites THEN Raise(s1, AtLine("Duplicated site id", lnum))
         ELSE IF <<avenue, street>> \in s.locations
              THEN Raise([s1 EXCEPT !.sites = @ \cup {site}],
                         AtLine("Duplicated site location", lnum))
         ELSE [s1 EXCEPT !.sites = @ \cup {site},
                         !.locations = @ \cup {<<avenue, street>>}]

\* ScanHeader2 without the comparison of the site count with the largest id
ScanHeader2_NoCount(s, lnum, ln) ==
    IF ln # Header2 THEN Raise(s, AtLine("Invalid line", lnum))
    ELSE [s EXCEPT !.state = 2]

\* state == 1, other line: the second header
ScanHeader2(s, lnum, ln) ==
    IF ln # Header2 THEN Raise(s, AtLine("Invalid line", lnum))
    ELSE IF Cardinality(s.sites) # s.n_site
         THEN Raise(s, Plain("Mismatched #site and the first part of the input"))
    ELSE [s EXCEPT !.state = 2]

\* state == 2: an opening-window record
ScanWindow(s, lnum, ln) ==
    IF Len(ln) # 4 THEN Raise(s, AtLine("Invalid line", lnum))
    ELSE IF \E i \in 1..4 : ~IsInt(ln[i]) THEN Raise(s, Plain("ValueError"))
    ELSE
      LET site == IntOf(ln[1])
          day == IntOf(ln[2])
          begin_hour == IntOf(ln[3])
          end_hour == IntOf(ln[4])
          n_day == Max(s.n_day, day)
          s1 == [s EXCEPT !.n_day = n_day]
      IN IF n_day > max_n_day THEN Raise(s1, WithArg("#day is too large", <<n_day>>))
         ELSE IF ~(1 <= site /\ site <= s.n_site) THEN Raise(s1, AtLine("Invalid site id", lnum))
         ELSE IF ~(0 <= begin_hour /\ begin_hour <= end_hour /\ end_hour <= MaxHour)
              THEN Raise(s1, AtLine("Invalid opening hours", lnum))
         ELSE IF <<site, day>> \in s.sitedays
              THEN Raise(s1, AtLine("Duplicated (site,day) pair", lnum))
         ELSE [s1 EXCEPT !.sitedays = @ \cup {<<site, day>>}]

\* ScanLine that also takes a line of five tokens as a site record in state 2
ScanLine_SitesAnywhere(s, lnum, line) ==
    LET ln == Split(line)
    IN IF ln = <<>> THEN s
       ELSE IF s.state = 0 THEN ScanHeader1(s, lnum, ln)
       ELSE IF s.state = 1 THEN
              IF IsDigitLeading(ln[1]) THEN ScanSite(s, lnum, ln)
              ELSE ScanHeader2(s, lnum, ln)
       ELSE IF Len(ln) = 5 THEN ScanSite(s, lnum, ln)
       ELSE ScanWindow(s, lnum, ln)

\* ScanLine with the lines numbered from 0 (enumerate without start=1)
ScanLine_FromZero(s, lnum, line) ==
    LET ln == Split(line)
    IN IF ln = <<>> THEN s
       ELSE IF s.state = 0 THEN ScanHeader1(s, lnum - 1, ln)
       ELSE IF s.state = 1 THEN
              IF IsDigitLeading(ln[1]) THEN ScanSite(s, lnum - 1, ln)
              ELSE ScanHeader2(s, lnum - 1, ln)
       ELSE ScanWindow(s, lnum - 1, ln)

\* one iteration of the loop over enumerate(stdin.split('\n'), start=1)
ScanLine(s, lnum, line) ==
    LET ln == Split(line)
    IN IF ln = <<>> THEN s
       ELSE IF s.state = 0 THEN ScanHeader1(s, lnum, ln)
       ELSE IF s.state = 1 THEN
              IF IsDigitLeading(ln[1]) THEN ScanSite(s, lnum, ln)
              ELSE ScanHeader2(s, lnum, ln)
       ELSE ScanWindow(s, lnum, ln)

\* the loop over the first k lines; a raise leaves the loop
RECURSIVE Scan(_, _)
Scan(text, k) ==
    IF k = 0 THEN ScanInit
    ELSE LET s == Scan(text, k - 1)
         IN IF s.exn # NoExn THEN s ELSE ScanLine(s, k, text[k])

\* the least element of a non-empty set of integers
Least(S) == CHOOSE m \in S : \A o \in S : m <= o

\* PostScan without the loop that looks for a missing site or day
PostScan_CountOnly(s) ==
    IF s.exn # NoExn THEN s
    ELSE IF s.state # 2 THEN Raise(s, Plain("Unexpected EOF at this point"))
    ELSE IF s.n_day * s.n_site # Cardinality(s.sitedays)
         THEN Raise(s, Plain("Mismatched #day, #site and the second part of the input"))
    ELSE s

\* the checks after the loop
PostScan(s) ==
    IF s.exn # NoExn THEN s
    ELSE IF s.state # 2 THEN Raise(s, Plain("Unexpected EOF at this point"))
    ELSE IF s.n_day * s.n_site # Cardinality(s.sitedays)
         THEN Raise(s, Plain("Mismatched #day, #site and the second part of the input"))
    ELSE
      LET badsite(site) == site \notin s.sites
                           \/ \E day \in 1..s.n_day : <<site, day>> \notin s.sitedays
          bad == {site \in 1..s.n_site : badsite(site)}
      IN IF bad = {} THEN s
         ELSE LET site == Least(bad)
              IN IF site \notin s.sites THEN Raise(s, WithArg("Missing site id", <<site>>))
                 ELSE Raise(s, WithArg("Missing day for site",
                                <<Least({day \in 1..s.n_day :
                                           <<site, day>> \notin s.sitedays}), site>>))

(* ------------------------------------------------------------------ *)
(* OptimalTour.__init__: the tables and the second, unchecked parse    *)
(* ------------------------------------------------------------------ *)
\* list[i] of a Python list of length n: the 1-based position, 0 for IndexError
PyIndex(n, i) ==
    IF 0 <= i /\ i < n THEN i + 1
    ELSE IF 0 - n <= i /\ i < 0 THEN n + i + 1
    ELSE 0

\* [[0] * n_site] * n_day: n_day references to ONE row object.  A table is
\* the list of row references (ref) and the row objects they point to (heap).
NewTable(n_site, n_day) ==
    [ref |-> [d \in 1..n_day |-> 1], heap |-> <<[s \in 1..n_site |-> 0]>>]

\* table[day][site], both 0-based and in range
TableGet(t, day, site) == t.heap[t.ref[day + 1]][site + 1]

\* table[day][site] = v with Python index rules; the positions are in range
TableSet(t, dpos, spos, v) == [t EXCEPT !.heap[t.ref[dpos]][spos] = v]

NewTour(n_site, n_day) ==
    [n_site |-> n_site, n_day |-> n_day,
     x |-> [s \in 1..n_site |-> 0], y |-> [s \in 1..n_site |-> 0],
     val |-> [s \in 1..n_site |-> FZero], time |-> [s \in 1..n_site |-> 0],
     beghr |-> NewTable(n_site, n_day), endhr |-> NewTable(n_site, n_day)]

\* the constructor's loop state: the object, the parser state, the exception
\* raised (if any) and whether a negative index was written through
BuildInit(n_site, n_day) ==
    [self |-> NewTour(n_site, n_day), state |-> 0, fault |-> "", wrapped |-> FALSE]

\* BuildSite that stores the avenue in y and the street in x
BuildSite_Swapped(b, ln) ==
    IF ~IsInt(ln[1]) THEN [b EXCEPT !.fault = "ValueError"]
    ELSE
      LET site == IntOf(ln[1]) - 1
          spos == PyIndex(b.self.n_site, site)
      IN IF Len(ln) < 2 THEN [b EXCEPT !.fault = "IndexError"]
         ELSE IF ~IsInt(ln[2]) THEN [b EXCEPT !.fault = "ValueError"]
         ELSE IF spos = 0 THEN [b EXCEPT !.fault = "IndexError"]
         ELSE IF Len(ln) < 3 THEN [b EXCEPT !.fault = "IndexError"]
         ELSE IF ~IsInt(ln[3]) THEN [b EXCEPT !.fault = "ValueError"]
         ELSE IF Len(ln) < 4 THEN [b EXCEPT !.fault = "IndexError"]
         ELSE IF ~IsInt(ln[4]) THEN [b EXCEPT !.fault = "ValueError"]
         ELSE IF Len(ln) < 5 THEN [b EXCEPT !.fault = "IndexError"]
         ELSE IF ~IsFloat(ln[5]) THEN [b EXCEPT !.fault = "ValueError"]
         ELSE [b EXCEPT !.self.x[spos] = IntOf(ln[3]),
                        !.self.y[spos] = IntOf(ln[2]),
                        !.self.time[spos] = IntOf(ln[4]),
                        !.self.val[spos] = FloatOf(ln[5]),
                        !.wrapped = @ \/ site < 0]

\* a site record, statement by statement: each right-hand side (ln[i], then
\* int() or float()) is evaluated before the store into the list
BuildSite(b, ln) ==
    IF ~IsInt(ln[1]) THEN [b EXCEPT !.fault = "ValueError"]
    ELSE
      LET site == IntOf(ln[1]) - 1
          spos == PyIndex(b.self.n_site, site)
      IN IF Len(ln) < 2 THEN [b EXCEPT !.fault = "IndexError"]
         ELSE IF ~IsInt(ln[2]) THEN [b EXCEPT !.fault = "ValueError"]
         ELSE IF spos = 0 THEN [b EXCEPT !.fault = "IndexError"]
         ELSE IF Len(ln) < 3 THEN [b EXCEPT !.fault = "IndexError"]
         ELSE IF ~IsInt(ln[3]) THEN [b EXCEPT !.fault = "ValueError"]
         ELSE IF Len(ln) < 4 THEN [b EXCEPT !.fault = "IndexError"]
         ELSE IF ~IsInt(ln[4]) THEN [b EXCEPT !.fault = "ValueError"]
         ELSE IF Len(ln) < 5 THEN [b EXCEPT !.fault = "IndexError"]
         ELSE IF ~IsFloat(ln[5]) THEN [b EXCEPT !.fault = "ValueError"]
         ELSE [b EXCEPT !.self.x[spos] = IntOf(ln[2]),
                        !.self.y[spos] = IntOf(ln[3]),
                        !.self.time[spos] = IntOf(ln[4]),
                        !.self.val[spos] = FloatOf(ln[5]),
                        !.wrapped = @ \/ site < 0]

\* BuildWindow that uses the site id as the index (no - 1)
BuildWindow_OneBased(b, ln) ==
    IF ~IsInt(ln[1]) THEN [b EXCEPT !.fault = "ValueError"]
    ELSE IF Len(ln) < 2 THEN [b EXCEPT !.fault = "IndexError"]
    ELSE IF ~IsInt(ln[2]) THEN [b EXCEPT !.fault = "ValueError"]
    ELSE
      LET site == IntOf(ln[1])
          day == IntOf(ln[2]) - 1
          dpos == PyIndex(b.self.n_day, day)
          spos == PyIndex(b.self.n_site, site)
      IN IF Len(ln) < 3 THEN [b EXCEPT !.fault = "IndexError"]
         ELSE IF ~IsInt(ln[3]) THEN [b EXCEPT !.fault = "ValueError"]
         ELSE IF dpos = 0 \/ spos = 0 THEN [b EXCEPT !.fault = "IndexError"]
         ELSE IF Len(ln) < 4 THEN [b EXCEPT !.fault = "IndexError"]
         ELSE IF ~IsInt(ln[4]) THEN [b EXCEPT !.fault = "ValueError"]
         ELSE [b EXCEPT !.self.beghr = TableSet(@, dpos, spos, IntOf(ln[3])),
                        !.self.endhr = TableSet(@, dpos, spos, IntOf(ln[4])),
                        !.wrapped = @ \/ site < 0 \/ day < 0]

\* a window record, statement by statement
BuildWindow(b, ln) ==
    IF ~IsInt(ln[1]) THEN [b EXCEPT !.fault = "ValueError"]
    ELSE IF Len(ln) < 2 THEN [b EXCEPT !.fault = "IndexError"]
    ELSE IF ~IsInt(ln[2]) THEN [b EXCEPT !.fault = "ValueError"]
    ELSE
      LET site == IntOf(ln[1]) - 1
          day == IntOf(ln[2]) - 1
          dpos == PyIndex(b.self.n_day, day)
          spos == PyIndex(b.self.n_site, site)
      IN IF Len(ln) < 3 THEN [b EXCEPT !.fault = "IndexError"]
         ELSE IF ~IsInt(ln[3]) THEN [b EXCEPT !.fault = "ValueError"]
         ELSE IF dpos = 0 \/ spos = 0 THEN [b EXCEPT !.fault = "IndexError"]
         ELSE IF Len(ln) < 4 THEN [b EXCEPT !.fault = "IndexError"]
         ELSE IF ~IsInt(ln[4]) THEN [b EXCEPT !.fault = "ValueError"]
         ELSE [b EXCEPT !.self.beghr = TableSet(@, dpos, spos, IntOf(ln[3])),
                        !.self.endhr = TableSet(@, dpos, spos, IntOf(ln[4])),
                        !.wrapped = @ \/ site < 0 \/ day < 0]

BuildLine(b, line) ==
    LET ln == Split(line)
    IN IF ln = <<>> THEN b
       ELSE IF b.state = 0 THEN [b EXCEPT !.state = 1]
       ELSE IF b.state = 1 THEN
              IF IsDigitLeading(ln[1]) THEN BuildSite(b, ln)
              ELSE [b EXCEPT !.state = 2]
       ELSE BuildWindow(b, ln)

RECURSIVE Build(_, _, _, _)
Build(n_site, n_day, text, k) ==
    IF k = 0 THEN BuildInit(n_site, n_day)
    ELSE LET b == Build(n_site, n_day, text, k - 1)
         IN IF b.fault # "" THEN b ELSE BuildLine(b, text[k])

OptimalTour(n_site, n_day, text) == Build(n_site, n_day, text, Len(text))

NoProblem ==
    [n_site |-> 0, n_day |-> 0, x |-> <<>>, y |-> <<>>, val |-> <<>>, time |-> <<>>,
     beghr |-> [ref |-> <<>>, heap |-> <<>>], endhr |-> [ref |-> <<>>, heap |-> <<>>]]

\* parse_input(fname) on a file whose text is `text`: the exception raised
\* (NoExn when the input is accepted) and the object returned
parse_input(text) ==
    LET s == PostScan(Scan(text, Len(text)))
        b == OptimalTour(s.n_site, s.n_day, text)
    IN IF s.exn # NoExn THEN [exn |-> s.exn, otp |-> NoProblem]
       ELSE IF b.fault # "" THEN [exn |-> Plain(b.fault), otp |-> NoProblem]
       ELSE [exn |-> NoExn, otp |-> b.self]

(* ------------------------------------------------------------------ *)
(* OptimalTour.parse_output: the scorer                                *)
(* ------------------------------------------------------------------ *)
\* while lines and not lines[-1]: lines.pop()
RECURSIVE TrimTrailing(_)
TrimTrailing(lines) ==
    IF lines # <<>> /\ lines[Len(lines)] = <<>>
    THEN TrimTrailing(SubSeq(lines, 1, Len(lines) - 1))
    ELSE lines

\* the locals of parse_output
TourInit ==
    [tot_val |-> FZero, visited_sites |-> {}, now |-> 0, x |-> 0, y |-> 0,
     is_first_site_of_day |-> TRUE, exn |-> NoExn]

\* DayStart that leaves the clock of the day before running
DayStart_KeepClock(c) == [c EXCEPT !.x = 0, !.y = 0, !.is_first_site_of_day = TRUE]

\* DayStart with the visited set created inside the loop over days
DayStart_FreshVisited(c) ==
    [c EXCEPT !.now = 0, !.x = 0, !.y = 0, !.is_first_site_of_day = TRUE,
              !.visited_sites = {}]

\* the top of the loop over days
DayStart(c) == [c EXCEPT !.now = 0, !.x = 0, !.y = 0, !.is_first_site_of_day = TRUE]

\* Arrive with now = (travel time) in place of now += (travel time)
Arrive_Restart(self, c, site) ==
    IF ~c.is_first_site_of_day
    THEN Abs(c.x - self.x[site + 1]) + Abs(c.y - self.y[site + 1])
    ELSE c.now

\* the clock when the visit of `site` (0-based) starts, before the wait for opening
Arrive(self, c, site) ==
    IF ~c.is_first_site_of_day
    THEN c.now + Abs(c.x - self.x[site + 1]) + Abs(c.y - self.y[site + 1])
    ELSE c.now

\* Collect with = in place of +=
Collect_Overwrite(self, c, site) == self.val[site + 1]

\* tot_val += self.val[site]
Collect(self, c, site) == FAdd(c.tot_val, self.val[site + 1])

\* is `site` (0-based) refused as already visited
AlreadyVisited(c, site) == site \in c.visited_sites

\* VisitSite with the time check made before the already-visited check
VisitSite_TimeFirst(self, c, day, site_s) ==
    IF ~IsInt(site_s) THEN [c EXCEPT !.exn = Plain("ValueError")]
    ELSE
      LET ssite == IntOf(site_s)
          site == ssite - 1
      IN IF ~(0 <= site /\ site < self.n_site)
         THEN [c EXCEPT !.exn = WithArg("Site id should be between 1 and", <<ssite, self.n_site>>)]
         ELSE
           LET now == Max(Arrive(self, c, site),
                          TableGet(self.beghr, day, site) * MinutesPerHour)
               c1 == [c EXCEPT !.visited_sites = @ \cup {site},
                               !.is_first_site_of_day = FALSE,
                               !.x = self.x[site + 1],
                               !.y = self.y[site + 1],
                               !.now = now]
           IN IF now + self.time[site + 1] > TableGet(self.endhr, day, site) * MinutesPerHour
              THEN [c1 EXCEPT !.exn = WithArg("Insufficient time to visit site", <<ssite>>)]
              ELSE IF AlreadyVisited(c, site)
              THEN [c EXCEPT !.exn = WithArg("You have already visited site", <<ssite>>)]
              ELSE [c1 EXCEPT !.tot_val = Collect(self, c, site)]

\* one iteration of the loop over the tokens of day `day` (0-based)
VisitSite(self, c, day, site_s) ==
    IF ~IsInt(site_s) THEN [c EXCEPT !.exn = Plain("ValueError")]
    ELSE
      LET ssite == IntOf(site_s)
          site == ssite - 1
      IN IF ~(0 <= site /\ site < self.n_site)
         THEN [c EXCEPT !.exn = WithArg("Site id should be between 1 and", <<ssite, self.n_site>>)]
         ELSE IF AlreadyVisited(c, site)
         THEN [c EXCEPT !.exn = WithArg("You have already visited site", <<ssite>>)]
         ELSE
           LET now == Max(Arrive(self, c, site),
                          TableGet(self.beghr, day, site) * MinutesPerHour)
               c1 == [c EXCEPT !.visited_sites = @ \cup {site},
                               !.is_first_site_of_day = FALSE,
                               !.x = self.x[site + 1],
                               !.y = self.y[site + 1],
                               !.now = now]
           IN IF now + self.time[site + 1] > TableGet(self.endhr, day, site) * MinutesPerHour
              THEN [c1 EXCEPT !.exn = WithArg("Insufficient time to visit site", <<ssite>>)]
              ELSE [c1 EXCEPT !.tot_val = Collect(self, c, site)]

\* the loop over the first k tokens of a day's line
RECURSIVE VisitDay(_, _, _, _, _)
VisitDay(self, c, day, ln, k) ==
    IF k = 0 THEN DayStart(c)
    ELSE LET p == VisitDay(self, c, day, ln, k - 1)
         IN IF p.exn # NoExn THEN p ELSE VisitSite(self, p, day, ln[k])

\* the loop over the first d lines
RECURSIVE VisitDays(_, _, _)
VisitDays(self, lines, d) ==
    IF d = 0 THEN TourInit
    ELSE LET p == VisitDays(self, lines, d - 1)
         IN IF p.exn # NoExn THEN p
            ELSE LET ln == Split(lines[d])
                 IN VisitDay(self, p, d - 1, ln, Len(ln))

\* parse_output that refuses too few lines only and scores the first n_day
parse_output_AtLeast(self, text) ==
    LET lines == TrimTrailing(text)
    IN IF Len(lines) < self.n_day
       THEN [called |-> TRUE, tot_val |-> FZero, self |-> self,
             exn |-> WithArg("Expected lines in your output", <<self.n_day, Len(lines)>>)]
       ELSE LET c == VisitDays(self, lines, self.n_day)
            IN [called |-> TRUE, tot_val |-> c.tot_val, self |-> self, exn |-> c.exn]

\* parse_output that marks a visited site as used up by zeroing its value
parse_output_Consuming(self, text) ==
    LET lines == TrimTrailing(text)
    IN IF Len(lines) # self.n_day
       THEN [called |-> TRUE, tot_val |-> FZero, self |-> self,
             exn |-> WithArg("Expected lines in your output", <<self.n_day, Len(lines)>>)]
       ELSE LET c == VisitDays(self, lines, Len(lines))
            IN [called |-> TRUE, tot_val |-> c.tot_val, exn |-> c.exn,
                self |-> [self EXCEPT !.val = [i \in 1..self.n_site |->
                                     IF (i - 1) \in c.visited_sites THEN FZero ELSE self.val[i]]]]

\* parse_output(out) on the object `self`: the exception raised (NoExn when
\* it returns), tot_val when it ended (the value returned when it returns)
\* and the object after the call
parse_output(self, text) ==
    LET lines == TrimTrailing(text)
    IN IF Len(lines) # self.n_day
       THEN [called |-> TRUE, tot_val |-> FZero, self |-> self,
             exn |-> WithArg("Expected lines in your output", <<self.n_day, Len(lines)>>)]
       ELSE LET c == VisitDays(self, lines, Len(lines))
            IN [called |-> TRUE, tot_val |-> c.tot_val, self |-> self, exn |-> c.exn]

(* ------------------------------------------------------------------ *)
(* do_run: the call of the scorer and the recorded result              *)
(* ------------------------------------------------------------------ *)
EmptyText == << <<>> >>

NotCalled(self) == [called |-> FALSE, tot_val |-> FZero, self |-> self, exn |-> NoExn]

\* otp.parse_output(out): `if out:` leaves an empty output undecoded, and
\* bytes.split('\n') raises TypeError
CallParseOutput(self, text) ==
    IF text = EmptyText
    THEN [called |-> TRUE, tot_val |-> FZero, self |-> self, exn |-> Plain("TypeError")]
    ELSE parse_output(self, text)

\* Result that keeps the value accumulated before the exception
Result_Partial(succ, r) ==
    IF ~succ THEN [val |-> FZero, comment |-> Plain("Runtime error")]
    ELSE IF r.exn = NoExn THEN [val |-> r.tot_val, comment |-> Plain("The output looks fine")]
    ELSE [val |-> r.tot_val, comment |-> r.exn]

\* the (val, comment) pair written to result.out
Result(succ, r) ==
    IF ~succ THEN [val |-> FZero, comment |-> Plain("Runtime error")]
    ELSE IF r.exn = NoExn THEN [val |-> r.tot_val, comment |-> Plain("The output looks fine")]
    ELSE [val |-> FZero, comment |-> r.exn]

(* ------------------------------------------------------------------ *)
(* Inputs                                                               *)
(* ------------------------------------------------------------------ *)
\* sequences over S of length at most n
SeqsUpTo(S, n) == UNION {[1..k -> S] : k \in 0..n}

\* site records of the generated problems: site i stands at avenue 10 (i - 1)
AvenueOf(i) == 10 * (i - 1)
DesiredTimeOf(i) == 30 + 25 * (i - 1)
ValueOf(i) == 2 ^ (i - 1)
GoodSite(i) == SiteLine(i, AvenueOf(i), 0, DesiredTimeOf(i), ValueOf(i))

DefaultWindow == <<0, 2>>
OtherWindows == {<<0, 1>>, <<1, 2>>}

\* window tables: the default everywhere, or with one entry changed
WindowTables(n_site, n_day) ==
    LET dflt == [p \in (1..n_site) \X (1..n_day) |-> DefaultWindow]
    IN {dflt} \cup {[dflt EXCEPT ![p] = w] : p \in (1..n_site) \X (1..n_day), w \in OtherWindows}

\* the problem text of section "Problem text format": the sites in order,
\* then the windows by site and day
WellFormed(n_site, n_day, win) ==
    <<Header1>> \o [i \in 1..n_site |-> GoodSite(i)] \o <<Header2>>
    \o [k \in 1..(n_site * n_day) |->
          LET site == ((k - 1) \div n_day) + 1
              day == ((k - 1) % n_day) + 1
          IN WindowLine(site, day, win[<<site, day>>][1], win[<<site, day>>][2])]

WellFormedTexts ==
    UNION {{WellFormed(n_site, n_day, win) : win \in WindowTables(n_site, n_day)} :
             n_site \in 1..MaxSite, n_day \in 1..MaxDay}

\* the lines short texts are made of
OddLines ==
    {<<>>, Header1, Header2,
     SiteLine(1, 0, 0, 30, 1), SiteLine(2, 0, 0, 55, 2),
     WindowLine(1, 1, 0, 1), WindowLine(1, 2, 1, 2), WindowLine(1, 0, 0, 1)}

ShortTexts == SeqsUpTo(OddLines, MaxLines) \ {<<>>}

\* the lines that replace one line of a generated text
BadLines ==
    {<<>>, <<WS>>, Header1, Header2,
     SiteLine(2, 0, 0, 55, 2), SiteLine(0 - 1, 20, 0, 30, 1), SiteLine(0, 20, 0, 30, 1),
     SiteLine(max_n_site + 1, 20, 0, 30, 1), SiteLine(1, 20, 0, MaxDesiredTime + 1, 1),
     SiteLine(1, 20, 0, 30, 0),
     WindowLine(1, 0, 0, 1), WindowLine(1, max_n_day + 1, 0, 1),
     WindowLine(1, 1, 1, MaxHour + 1),
     <<Num(1), Num(20), Num(0), Num(30), RealNan>>,
     <<DigitWord("1abc"), Num(20), Num(0), Num(30), Num(1)>>,
     <<Plus(1), Num(20), Num(0), Num(30), Num(1)>>}

\* the generated texts with the default windows
DefaultTexts ==
    {WellFormed(n_site, n_day, [p \in (1..n_site) \X (1..n_day) |-> DefaultWindow]) :
       n_site \in 1..MaxSite, n_day \in 1..MaxDay}

\* such a text with one line replaced
CorruptedTexts ==
    UNION {{[t EXCEPT ![i] = l] : i \in 1..Len(t), l \in BadLines} : t \in DefaultTexts}

\* values that only float() reads: "1.5" and "inf"
RealValues == {Real(TRUE, 15, 10), RealInf}

\* the generated texts of one day with the default windows and such a value
\* for site 1
RealValueTexts ==
    {[WellFormed(n_site, 1, [p \in (1..n_site) \X (1..1) |-> DefaultWindow])
        EXCEPT ![2] = <<Num(1), Num(0), Num(0), Num(30), v>>] :
       n_site \in 1..MaxSite, v \in RealValues}

\* the text of MaxSite + 1 sites of values 0.1, 0.2, 0.3, ... and one day,
\* every site open from 0 to MaxHour
TenthsText ==
    <<Header1>>
    \o [i \in 1..(MaxSite + 1) |->
          <<Num(i), Num(AvenueOf(i)), Num(0), Num(DesiredTimeOf(i)), Real(TRUE, i, 10)>>]
    \o <<Header2>> \o [i \in 1..(MaxSite + 1) |-> WindowLine(i, 1, 0, MaxHour)]

Inputs ==
    ShortTexts \cup WellFormedTexts \cup CorruptedTexts \cup RealValueTexts \cup {TenthsText}

\* candidate outputs for a problem of n_site sites and n_day days, as
\* str.split('\n') sees them (one line at least), of at most MaxVisits tokens
\* (site ids and runs of blanks) in all.  The texts of n_day lines take their
\* site ids from 0 to n_site + 1; the texts of another number of lines, from
\* 1 to n_day + 1, take them from 0 and 1.
OutIds(n_site) == {Num(i) : i \in 0..(n_site + 1)}
OutLines(n_site) == SeqsUpTo(OutIds(n_site), MaxVisits) \cup {<<WS>>}
MiscountedLines == SeqsUpTo({Num(0), Num(1)}, MaxVisits) \cup {<<WS>>}
\* the texts of exactly nlines lines taken from `lines`, of at most ntok tokens
RECURSIVE TextsOf(_, _, _)
TextsOf(lines, nlines, ntok) ==
    IF nlines = 0 THEN {<<>>}
    ELSE UNION {{<<l>> \o t : t \in TextsOf(lines, nlines - 1, ntok - Len(l))} :
                  l \in {m \in lines : Len(m) <= ntok}}
\* the routes a, b, a on one day, the other days' lines blank
Returns(n_site, n_day) ==
    {[k \in 1..n_day |-> IF k = d THEN <<Num(a), Num(b), Num(a)>> ELSE <<WS>>] :
       a \in 1..n_site, b \in 1..n_site, d \in 1..n_day}
\* the routes of three different sites on one day, the other days' lines blank
Rounds(n_site, n_day) ==
    {[k \in 1..n_day |-> IF k = d THEN <<Num(r[1]), Num(r[2]), Num(r[3])>> ELSE <<WS>>] :
       r \in {q \in (1..n_site) \X (1..n_site) \X (1..n_site) :
                q[1] # q[2] /\ q[1] # q[3] /\ q[2] # q[3]},
       d \in 1..n_day}
OutsOf(n_site, n_day) ==
    (IF n_day = 0 THEN {} ELSE TextsOf(OutLines(n_site), n_day, MaxVisits))
    \cup UNION {TextsOf(MiscountedLines, n, MaxVisits) : n \in (1..(n_day + 1)) \ {n_day}}
    \cup Returns(n_site, n_day) \cup Rounds(n_site, n_day)
\* the same sets, tabulated for the sizes the inputs reach
RECURSIVE Tabulate(_)
Tabulate(S) ==
    IF S = {} THEN <<>>
    ELSE LET p == CHOOSE q \in S : TRUE
         IN (p :> OutsOf(p[1], p[2])) @@ Tabulate(S \ {p})
OutsTable == Tabulate(((0..MaxSite) \X (0..MaxDay)) \cup {<<MaxSite + 1, 1>>})
Outs(n_site, n_day) ==
    IF <<n_site, n_day>> \in DOMAIN OutsTable THEN OutsTable[<<n_site, n_day>>]
    ELSE OutsOf(n_site, n_day)

(* ------------------------------------------------------------------ *)
(* The grader                                                          *)
(* ------------------------------------------------------------------ *)
NoScore == [called |-> FALSE, tot_val |-> FZero, exn |-> NoExn]
NoResult == [val |-> FZero, comment |-> NoExn]

Init ==
    /\ stdin \in Inputs
    /\ phase = "new"
    /\ otp = NoProblem
    /\ built = NoProblem
    /\ verdict = NoExn
    /\ reused = FALSE
    /\ out = EmptyText
    /\ score = NoScore
    /\ recorded = NoResult

\* prepare_inputs: parse_input on one file
Validate ==
    /\ phase = "new"
    /\ LET v == parse_input(stdin)
       IN /\ verdict' = v.exn
          /\ otp' = v.otp
          /\ built' = v.otp
          /\ phase' = IF v.exn = NoExn THEN "accepted" ELSE "rejected"
    /\ UNCHANGED <<stdin, reused, out, score, recorded>>

\* do_run with a solver that exited normally and printed some text o
RunScored ==
    /\ phase = "accepted"
    /\ \E o \in Outs(otp.n_site, otp.n_day) :
         LET r == CallParseOutput(otp, o)
         IN /\ otp' = r.self
            /\ score' = [called |-> r.called, tot_val |-> r.tot_val, exn |-> r.exn]
            /\ recorded' = Result(TRUE, r)
            /\ out' = o
    /\ phase' = "scored"
    /\ UNCHANGED <<stdin, built, verdict, reused>>

\* do_run with a solver that failed: the scorer is not called
RunFailed ==
    /\ phase = "accepted"
    /\ LET r == NotCalled(otp)
       IN /\ otp' = r.self
          /\ score' = [called |-> r.called, tot_val |-> r.tot_val, exn |-> r.exn]
          /\ recorded' = Result(FALSE, r)
    /\ phase' = "scored"
    /\ UNCHANGED <<stdin, built, verdict, reused, out>>

\* run(): do_run has returned and the loop moves on to the next solver,
\* which is run on the same object; `reused` records that the object has
\* been through a run before
NextSolver ==
    /\ phase = "scored"
    /\ phase' = "accepted"
    /\ reused' = TRUE
    /\ out' = EmptyText
    /\ score' = NoScore
    /\ recorded' = NoResult
    /\ UNCHANGED <<stdin, built, verdict, otp>>

\* clean_output (what the option --clean runs): the directory of the
\* results is removed, and result.out with it
CleanOutput ==
    /\ recorded # NoResult
    /\ recorded' = NoResult
    /\ UNCHANGED <<stdin, phase, otp, built, verdict, reused, out, score>>

Next ==
    \/ Validate
    \/ RunScored
    \/ RunFailed
    \/ NextSolver
    \/ CleanOutput

Spec == Init /\ [][Next]_vars

(* ------------------------------------------------------------------ *)
(* Vocabulary of the properties                                        *)
(* ------------------------------------------------------------------ *)
Accepted == phase \in {"accepted", "scored"}
Scored == phase = "scored" /\ score.called
Feasible == Scored /\ score.exn = NoExn
Rejected == phase = "scored" /\ (~score.called \/ score.exn # NoExn)
\* result.out is there
Recorded == recorded # NoResult

AllInts(ln) == \A i \in 1..Len(ln) : IsInt(ln[i])
\* the lines of a text that read as site records and as window records
SiteRecords(text) ==
    {i \in 1..Len(text) :
       LET ln == Split(text[i])
       IN Len(ln) = 5 /\ AllInts(SubSeq(ln, 1, 4)) /\ IsFloat(ln[5])}
WindowRecords(text) ==
    {i \in 1..Len(text) : Len(Split(text[i])) = 4 /\ AllInts(Split(text[i]))}
Field(text, i, k) == Split(text[i])[k].n

\* the (day, position) slots of a candidate output and the site id in each
Slots(text) == UNION {{<<d, i>> : i \in 1..Len(Split(text[d]))} : d \in 1..Len(text)}
IdAt(text, p) == Split(text[p[1]])[p[2]].n
IdsOf(text) == {IdAt(text, p) : p \in Slots(text)}

\* the site ids of a candidate output in visiting order, and the float sum
\* of their values taken in that order from 0.0
RECURSIVE Route(_)
Route(text) ==
    IF text = <<>> THEN <<>>
    ELSE Route(SubSeq(text, 1, Len(text) - 1))
         \o [i \in 1..Len(Split(text[Len(text)])) |-> Split(text[Len(text)])[i].n]
RECURSIVE SumVal(_, _)
SumVal(self, ids) ==
    IF ids = <<>> THEN FZero
    ELSE FAdd(SumVal(self, SubSeq(ids, 1, Len(ids) - 1)), self.val[ids[Len(ids)]])

\* the lines at which a rule of the state machine is violated, given the
\* state accumulated from the lines before
Violating(text) ==
    {k \in 1..Len(text) :
       /\ Scan(text, k - 1).exn = NoExn
       /\ ScanLine(Scan(text, k - 1), k, text[k]).exn # NoExn}

\* the line-level rejections whose message carries no line number
NoLineMessages ==
    {"#site is too large", "#day is too large",
     "Mismatched #site and the first part of the input", "ValueError"}

(* ------------------------------------------------------------------ *)
(* Properties                                                          *)
(* ------------------------------------------------------------------ *)

\* C1: for every accepted input, the stored begin_hour[day][site] and
\* end_hour[day][site] are those of the input's record for that (site, day).
C1_WindowsAsWritten ==
    phase = "accepted" =>
      \A i \in WindowRecords(stdin) :
         /\ TableGet(otp.beghr, Field(stdin, i, 2) - 1, Field(stdin, i, 1) - 1)
              = Field(stdin, i, 3)
         /\ TableGet(otp.endhr, Field(stdin, i, 2) - 1, Field(stdin, i, 1) - 1)
              = Field(stdin, i, 4)

\* C2: every accepted problem has 1 <= n_site <= 200 and 1 <= n_day <= 10.
C2_CountsAtLeastOne ==
    phase = "accepted" =>
      /\ 1 <= otp.n_site /\ otp.n_site <= max_n_site
      /\ 1 <= otp.n_day /\ otp.n_day <= max_n_day

\* C3: in a feasible tour, a day's route that starts A then B, both windows
\* opening at hour 0, has time[A] + distance(A, B) + time[B] <= end_hour[B] * 60.
C3_VisitTimeCounts ==
    Feasible =>
      \A d \in 1..Len(out) :
         LET ln == Split(out[d])
         IN (/\ Len(ln) >= 2
             /\ TableGet(otp.beghr, d - 1, ln[1].n - 1) = 0
             /\ TableGet(otp.beghr, d - 1, ln[2].n - 1) = 0)
            => otp.time[ln[1].n]
                 + Abs(otp.x[ln[1].n] - otp.x[ln[2].n]) + Abs(otp.y[ln[1].n] - otp.y[ln[2].n])
                 + otp.time[ln[2].n]
               <= TableGet(otp.endhr, d - 1, ln[2].n - 1) * MinutesPerHour

\* C4: an output of exactly n_day lines is not refused for its line count
\* because one of its lines is empty, and the output whose n_day lines are
\* all empty is feasible with total value 0.
C4_EmptyDayLines ==
    (Scored /\ Len(out) = otp.n_day /\ \E d \in 1..Len(out) : out[d] = <<>>) =>
      /\ score.exn.msg \notin {"Expected lines in your output", "TypeError"}
      /\ (\A d \in 1..Len(out) : out[d] = <<>>)
           => (score.exn = NoExn /\ score.tot_val = FZero /\ recorded.val = FZero)

\* C5: a tour that names a site id in two different (day, position) slots is
\* rejected.
C5_RepeatRejected ==
    (Scored /\ \E p, q \in Slots(out) : p # q /\ IdAt(out, p) = IdAt(out, q)) =>
      score.exn # NoExn /\ recorded.val = FZero

\* a site named on two different days, refused as already visited
C5_Witness ==
    /\ Scored
    /\ \E p, q \in Slots(out) : p[1] # q[1] /\ IdAt(out, p) = IdAt(out, q)
    /\ score.exn.msg = "You have already visited site"

\* the orders in which the sites of a set can be added up
Orders(S) ==
    {q \in [1..Cardinality(S) -> S] : \A i, j \in 1..Cardinality(S) : i # j => q[i] # q[j]}

\* C6 as stated: the total value of a feasible tour is the sum of
\* value[site] over the set of the distinct sites it names, each counted
\* once, and is not negative.  A sum over a set is the same in whatever
\* order the sites are added up.  result.out holds the total while it is
\* there.
C6_SumOverTheSet ==
    Feasible =>
      /\ Len(Route(out)) = Cardinality(IdsOf(out))
      /\ \A q \in Orders(IdsOf(out)) : score.tot_val = SumVal(otp, q)
      /\ Recorded => recorded.val = score.tot_val
      /\ ~FLess(score.tot_val, FZero)

\* C6 amended: the total value of a feasible tour is the float sum of
\* value[site] over the distinct sites it names, each counted once, added
\* up from 0.0 in visiting order, and is not negative; it is the sum over
\* the set in any order when the tour names at most two sites.  result.out
\* holds the total while it is there.
C6_TotalValue ==
    Feasible =>
      /\ Len(Route(out)) = Cardinality(IdsOf(out))
      /\ score.tot_val = SumVal(otp, Route(out))
      /\ Cardinality(IdsOf(out)) <= 2 =>
            \A q \in Orders(IdsOf(out)) : score.tot_val = SumVal(otp, q)
      /\ Recorded => recorded.val = score.tot_val
      /\ ~FLess(score.tot_val, FZero)

\* a feasible tour of three sites of values 0.1, 0.2 and 0.3 whose total,
\* 0.6000000000000001, is not the sum of the same values in another order
C6_Witness ==
    /\ Feasible /\ Recorded /\ Cardinality(IdsOf(out)) = 3
    /\ otp.val[1] = FDec(FALSE, 1, 10) /\ otp.val[2] = FDec(FALSE, 2, 10)
    /\ \E q \in Orders(IdsOf(out)) : score.tot_val # SumVal(otp, q)

\* C7: in an accepted input the site records carry each id of 1..n_site
\* once, at pairwise different locations, and the window records carry each
\* pair of (1..n_site) x (1..n_day) once and no other pair.
C7_RecordsDense ==
    phase = "accepted" =>
      /\ {Field(stdin, i, 1) : i \in SiteRecords(stdin)} = 1..otp.n_site
      /\ \A i, j \in SiteRecords(stdin) :
           i # j => /\ Field(stdin, i, 1) # Field(stdin, j, 1)
                    /\ <<Field(stdin, i, 2), Field(stdin, i, 3)>>
                         # <<Field(stdin, j, 2), Field(stdin, j, 3)>>
      /\ {<<Field(stdin, i, 1), Field(stdin, i, 2)>> : i \in WindowRecords(stdin)}
           = (1..otp.n_site) \X (1..otp.n_day)
      /\ \A i, j \in WindowRecords(stdin) :
           i # j => <<Field(stdin, i, 1), Field(stdin, i, 2)>>
                      # <<Field(stdin, j, 1), Field(stdin, j, 2)>>

\* an accepted input of two sites and two days
C7_Witness == phase = "accepted" /\ otp.n_site = 2 /\ otp.n_day = 2

\* C8 as stated: every rejection at a line reports the number of that line.
C8_LineAlwaysReported ==
    (phase = "rejected" /\ Violating(stdin) # {}) =>
      verdict.lnum = Least(Violating(stdin))

\* C8 as amended: the input is rejected at the first line that violates a
\* rule, that line is not blank, the lines after it do not change the
\* outcome, and the message carries that line's number (blank lines counted)
\* unless it is one of the messages that carry no line number; an accepted
\* input has no violating line and a rejection after the scan has no line
\* number.
C8_FirstViolationReported ==
    /\ phase = "accepted" => Violating(stdin) = {}
    /\ (phase = "rejected" /\ Violating(stdin) = {}) => verdict.lnum = 0
    /\ (phase = "rejected" /\ Violating(stdin) # {}) =>
         LET k == Least(Violating(stdin))
         IN /\ Split(stdin[k]) # <<>>
            /\ verdict = parse_input(SubSeq(stdin, 1, k)).exn
            /\ verdict.lnum = (IF verdict.msg \in NoLineMessages THEN 0 ELSE k)

\* a rejection at a line that follows a blank line and is not the last line
C8_Witness ==
    /\ phase = "rejected"
    /\ verdict.lnum >= 2
    /\ verdict.lnum < Len(stdin)
    /\ \E j \in 1..(verdict.lnum - 1) : Split(stdin[j]) = <<>>

\* C9: scoring leaves the object as the constructor built it, and the result
\* of scoring an output is the one the object as built gives, whatever runs
\* came before; result.out holds that result while it is there.
C9_ScoringPure ==
    Accepted =>
      LET r == CallParseOutput(built, out)
      IN /\ otp = built
         /\ Scored => /\ score = [called |-> r.called, tot_val |-> r.tot_val, exn |-> r.exn]
                      /\ Recorded => recorded = Result(TRUE, r)

\* a feasible scoring of an object that has been through a run before
C9_Witness == Feasible /\ Recorded /\ reused /\ FLess(FZero, score.tot_val)

\* the result of a rejected run: the value 0 and the message of the rejection
RejectionResult ==
    [val |-> FZero,
     comment |-> IF score.called THEN score.exn ELSE Plain("Runtime error")]

\* C10: a rejected run records the value 0 and the message of the rejection:
\* the step that ends in the rejection writes them to result.out, and
\* result.out holds them for as long as it is there.
C10_RejectionScoresZero ==
    /\ [](Rejected => recorded \in {NoResult, RejectionResult})
    /\ [][(phase # "scored" /\ Rejected') => recorded' = RejectionResult']_vars

\* a rejection for insufficient time after a visit that had added its value
C10_Witness ==
    /\ Rejected /\ Recorded
    /\ score.exn.msg = "Insufficient time to visit site"
    /\ FLess(FZero, score.tot_val)

\* a float written as repr() writes it, "1.0", "1.5", "0.1", "inf": the
\* numeral of the fewest decimals that float() reads as the same float (a
\* float read from a token has one of at most four decimals)
ToInt(a) == Limb(a, 1) + Limb(a, 2) * Base
Decimals(f, j) ==
    IF Top(f) > 2 * LimbBits THEN {}
    ELSE LET x == BMul(f.m, 10 ^ j)
             lo == IF f.e >= 0 THEN Shl(x, f.e) ELSE Shr(x, 0 - f.e)
         IN IF BitLen(lo) > 2 * LimbBits THEN {}
            ELSE {n \in {ToInt(lo), ToInt(lo) + 1} : FDec(f.neg, n, 10 ^ j) = f}
ValueToken(f) ==
    IF f.k = "inf" THEN RealInf
    ELSE IF f.k = "-inf" THEN RealNegInf
    ELSE IF f.k = "nan" THEN RealNan
    ELSE LET j == CHOOSE j \in 0..4 :
                    Decimals(f, j) # {} /\ \A i \in 0..(j - 1) : Decimals(f, i) = {}
             n == CHOOSE n \in Decimals(f, j) : \A o \in Decimals(f, j) : n <= o
         IN [w |-> IF f.neg THEN "-" ELSE "", n |-> IF f.neg THEN 0 - n ELSE n,
             den |-> 10 ^ j, lead |-> ~f.neg, k |-> "float"]

\* the problem text format written from a Problem: the headers, one site
\* record per site and one window record per (site, day), from the tables
Serialize(self) ==
    <<Header1>>
    \o [i \in 1..self.n_site |->
          <<Num(i), Num(self.x[i]), Num(self.y[i]), Num(self.time[i]),
            ValueToken(self.val[i])>>]
    \o <<Header2>>
    \o [k \in 1..(self.n_site * self.n_day) |->
          LET site == ((k - 1) \div self.n_day) + 1
              day == ((k - 1) % self.n_day) + 1
          IN WindowLine(site, day, TableGet(self.beghr, day - 1, site - 1),
                                   TableGet(self.endhr, day - 1, site - 1))]

\* two Problems agree on the counts, the site fields and every stored window
SameProblem(p, q) ==
    /\ p.n_site = q.n_site /\ p.n_day = q.n_day
    /\ \A i \in 1..p.n_site :
         /\ p.x[i] = q.x[i] /\ p.y[i] = q.y[i]
         /\ p.time[i] = q.time[i] /\ p.val[i] = q.val[i]
    /\ \A d \in 0..(p.n_day - 1) : \A i \in 0..(p.n_site - 1) :
         /\ TableGet(p.beghr, d, i) = TableGet(q.beghr, d, i)
         /\ TableGet(p.endhr, d, i) = TableGet(q.endhr, d, i)

\* C11: the text written back from the Problem built from an accepted input
\* is accepted, and the Problem built from it has the same n_site, n_day, x,
\* y, desired_time, value and stored begin_hour/end_hour.
C11_RoundTrip ==
    phase = "accepted" =>
      LET again == parse_input(Serialize(otp))
      IN again.exn = NoExn /\ SameProblem(again.otp, otp)

\* an accepted input of two sites and two days whose written-back text is
\* not the input text
C11_Witness ==
    /\ phase = "accepted" /\ otp.n_site = 2 /\ otp.n_day = 2
    /\ Serialize(otp) # stdin

\* the number of lines of a text that are left when the empty lines at its
\* end are dropped
Remaining(text) ==
    IF \A k \in 1..Len(text) : text[k] = <<>> THEN 0
    ELSE CHOOSE k \in 1..Len(text) :
           text[k] # <<>> /\ \A j \in (k + 1)..Len(text) : text[j] = <<>>

\* the number of lines that are left when the blank lines at its end, the
\* lines without a token, are dropped
RemainingNonBlank(text) ==
    IF \A k \in 1..Len(text) : Split(text[k]) = <<>> THEN 0
    ELSE CHOOSE k \in 1..Len(text) :
           Split(text[k]) # <<>> /\ \A j \in (k + 1)..Len(text) : Split(text[j]) = <<>>

\* C12 as stated: the scorer rejects with the line-count message exactly when
\* the number of lines left after trimming the trailing blank lines differs from
\* n_day; the message carries n_day and that number, whatever site ids the
\* lines name, and no value is accumulated.
C12_BlankLinesTrimmed ==
    (Scored /\ out # EmptyText) =>
      /\ (score.exn.msg = "Expected lines in your output")
            <=> (RemainingNonBlank(out) # otp.n_day)
      /\ (RemainingNonBlank(out) # otp.n_day) =>
           /\ score.exn = WithArg("Expected lines in your output",
                                  <<otp.n_day, RemainingNonBlank(out)>>)
           /\ score.tot_val = FZero

\* C12 amended: the scorer rejects with the line-count message exactly when
\* the number of lines left after dropping the trailing empty lines differs
\* from n_day, a line of blanks alone being a line that is left; the message
\* carries n_day and that number, whatever site ids the lines name, and no
\* value is accumulated.
C12_LineCountFirst ==
    /\ (Scored /\ out # EmptyText) =>
         /\ (score.exn.msg = "Expected lines in your output") <=> (Remaining(out) # otp.n_day)
         /\ (Remaining(out) # otp.n_day) =>
              /\ score.exn = WithArg("Expected lines in your output",
                                     <<otp.n_day, Remaining(out)>>)
              /\ score.tot_val = FZero
    /\ (phase = "accepted" /\ otp.n_day # 0) =>
         parse_output(otp, EmptyText).exn
           = WithArg("Expected lines in your output", <<otp.n_day, 0>>)

\* a text whose last line is a line of blanks: it is left and counted, the
\* text is rejected for the line count although the lines before it are
\* n_day lines, and although they name an out-of-range site id
C12_Witness ==
    /\ Scored /\ RemainingNonBlank(out) = otp.n_day /\ Remaining(out) = otp.n_day + 1
    /\ score.exn = WithArg("Expected lines in your output", <<otp.n_day, otp.n_day + 1>>)
    /\ \E p \in Slots(out) : IdAt(out, p) \notin 1..otp.n_site

\* the order in which the scorer reads the slots: by day, then by position
Before(p, q) == p[1] < q[1] \/ (p[1] = q[1] /\ p[2] < q[2])

\* the first n lines of a candidate output cut after slot p: the tokens up to
\* and including p, the later days' lines blank
Upto(text, n, p) ==
    [d \in 1..n |-> IF d < p[1] THEN text[d]
                    ELSE IF d = p[1] THEN SubSeq(Split(text[d]), 1, p[2])
                    ELSE <<WS>>]

\* the slots at which the output read so far is already rejected
RejectedAt(self, text) ==
    {p \in Slots(text) : parse_output(self, Upto(text, self.n_day, p)).exn # NoExn}

\* C13: an output with the right number of lines is rejected exactly when
\* reading it up to some token is; the rejection is the one of the output cut
\* after the first such token and names that token, whatever follows it; and
\* for that token the range message goes before the already-visited message,
\* which goes before the insufficient-time message.
C13_FirstViolatingToken ==
    (Scored /\ out # EmptyText /\ Remaining(out) = otp.n_day) =>
      LET bad == RejectedAt(otp, out)
      IN /\ (score.exn = NoExn) <=> (bad = {})
         /\ bad # {} =>
              LET p == CHOOSE q \in bad : \A o \in bad : o = q \/ Before(q, o)
                  id == IdAt(out, p)
              IN /\ score.exn = parse_output(otp, Upto(out, otp.n_day, p)).exn
                 /\ score.exn.arg[1] = id
                 /\ score.exn.msg =
                      (IF id \notin 1..otp.n_site THEN "Site id should be between 1 and"
                       ELSE IF \E q \in Slots(out) : Before(q, p) /\ IdAt(out, q) = id
                            THEN "You have already visited site"
                       ELSE "Insufficient time to visit site")

\* a route a, b, a refused for the repeated a, where the walk back alone
\* would have left too little time for a
C13_Witness ==
    /\ Scored /\ score.exn.msg = "You have already visited site"
    /\ \E d \in 1..Len(out) :
         LET ln == Split(out[d])
         IN /\ Len(ln) = 3 /\ ln[1] = ln[3] /\ ln[1] # ln[2]
            /\ 2 * (Abs(otp.x[ln[1].n] - otp.x[ln[2].n]) + Abs(otp.y[ln[1].n] - otp.y[ln[2].n]))
                 + otp.time[ln[1].n]
               > TableGet(otp.endhr, d - 1, ln[1].n - 1) * MinutesPerHour

\* the scorer's locals after the k-th token of day d (1-based) of an output
LocalsAt(self, text, d, k) ==
    VisitDay(self, VisitDays(self, text, d - 1), d - 1, Split(text[d]), k)

\* C14: in a feasible tour every visit starts, after the wait for opening,
\* at a clock value now with begin_hour*60 <= now and now + desired_time <=
\* end_hour*60 for the stored window of that day and site, and now does not
\* decrease along a day's route.
C14_VisitsInsideWindows ==
    Feasible =>
      \A p \in Slots(out) :
         LET d == p[1]
             k == p[2]
             site == IdAt(out, p) - 1
             now == LocalsAt(otp, out, d, k).now
         IN /\ TableGet(otp.beghr, d - 1, site) * MinutesPerHour <= now
            /\ now + otp.time[site + 1] <= TableGet(otp.endhr, d - 1, site) * MinutesPerHour
            /\ LocalsAt(otp, out, d, k - 1).now <= now

\* a feasible day of two visits, the second one after a wait for opening
C14_Witness ==
    /\ Feasible
    /\ \E d \in 1..Len(out) :
         /\ Len(Split(out[d])) = 2
         /\ LET c1 == LocalsAt(otp, out, d, 1)
                c2 == LocalsAt(otp, out, d, 2)
            IN /\ c2.now = TableGet(otp.beghr, d - 1, IdAt(out, <<d, 2>>) - 1) * MinutesPerHour
               /\ c2.now > Arrive(otp, c1, IdAt(out, <<d, 2>>) - 1)

\* clocks, positions and first-site flags a day could be entered with
OtherStarts ==
    {[now |-> 0, x |-> 10, y |-> 0, first |-> FALSE],
     [now |-> 45, x |-> 0, y |-> 0, first |-> TRUE],
     [now |-> 45, x |-> 10, y |-> 0, first |-> FALSE],
     [now |-> 2000, x |-> 500, y |-> 500, first |-> TRUE]}

\* the site ids (0-based) named on the days before day d
VisitedBefore(text, d) == {IdAt(text, p) - 1 : p \in {q \in Slots(text) : q[1] < d}}

\* C15: every day is entered with the clock at 0 and no position, its first
\* visit starts at the opening of the site with no travel added, and the
\* outcome of day d's line (its exception and the sites it adds) is the one
\* obtained from that line, day d's tables and the set of sites named on the
\* days before, whatever clock and position the day before ended with.
C15_DaysIndependent ==
    (Scored /\ out # EmptyText /\ Remaining(out) = otp.n_day) =>
      \A d \in 1..otp.n_day :
         LET before == VisitDays(otp, out, d - 1)
             ln == Split(out[d])
             here == VisitDay(otp, before, d - 1, ln, Len(ln))
             start == VisitDay(otp, before, d - 1, ln, 0)
         IN before.exn = NoExn =>
              /\ start.now = 0 /\ start.is_first_site_of_day
              /\ before.visited_sites = VisitedBefore(out, d)
              /\ (Len(ln) >= 1 /\ VisitDay(otp, before, d - 1, ln, 1).exn = NoExn) =>
                   VisitDay(otp, before, d - 1, ln, 1).now
                     = TableGet(otp.beghr, d - 1, ln[1].n - 1) * MinutesPerHour
              /\ \A o \in OtherStarts :
                   LET other == [TourInit EXCEPT !.visited_sites = VisitedBefore(out, d),
                                                 !.now = o.now, !.x = o.x, !.y = o.y,
                                                 !.is_first_site_of_day = o.first]
                       there == VisitDay(otp, other, d - 1, ln, Len(ln))
                   IN /\ there.exn = here.exn
                      /\ there.visited_sites = here.visited_sites
                      /\ there.now = here.now

\* a feasible tour of two days whose first day ends away from the origin
\* with the clock running, and whose second day has a visit
C15_Witness ==
    /\ Feasible /\ otp.n_day = 2
    /\ Split(out[1]) # <<>> /\ Split(out[2]) # <<>>
    /\ LET c == LocalsAt(otp, out, 1, Len(Split(out[1])))
       IN c.now > 0 /\ c.x > 0

\* C16 as stated: no input is rejected by the search for a missing site id
\* or a missing (site, day) pair that follows the count check.
C16_MissingNeverTriggers ==
    phase = "rejected" => verdict.msg \notin {"Missing site id", "Missing day for site"}

\* C16 as amended: the search never finds a missing site id, and it finds a
\* missing (site, day) pair only in an input that has a window record with a
\* day below 1, which no per-line check refuses and which the count check
\* counts; the pair reported is a day of 1..n_day and a site of 1..n_site
\* that no window record names.
C16_MissingOnlyForDayBelowOne ==
    phase = "rejected" =>
      /\ verdict.msg # "Missing site id"
      /\ verdict.msg = "Missing day for site" =>
           /\ \E i \in WindowRecords(stdin) : Field(stdin, i, 2) < 1
           /\ verdict.lnum = 0
           /\ verdict.arg[1] >= 1 /\ verdict.arg[2] >= 1
           /\ \A i \in WindowRecords(stdin) :
                <<Field(stdin, i, 2), Field(stdin, i, 1)>> # verdict.arg

\* an input rejected for a missing day although the number of its
\* (site, day) pairs is n_day * n_site
C16_Witness ==
    /\ phase = "rejected" /\ verdict.msg = "Missing day for site"
    /\ LET s == Scan(stdin, Len(stdin))
       IN s.exn = NoExn /\ s.state = 2 /\ s.n_day >= 1
          /\ s.n_day * s.n_site = Cardinality(s.sitedays)

\* C17: for every input that the validator passes, the second parse of the
\* constructor is in the validator's state after every line, every site
\* record it reads has 1 <= site <= n_site, every window record it reads has
\* 1 <= site <= n_site and 1 <= day <= n_day, and it ends without an
\* exception and without a write through a negative index.
C17_SecondParseAgrees ==
    (phase \in {"accepted", "rejected"} /\ ~reused) =>
      LET s == PostScan(Scan(stdin, Len(stdin)))
          b == OptimalTour(s.n_site, s.n_day, stdin)
      IN s.exn = NoExn =>
           /\ phase = "accepted"
           /\ b.fault = "" /\ ~b.wrapped
           /\ \A k \in 1..Len(stdin) :
                LET ln == Split(stdin[k])
                    st == Build(s.n_site, s.n_day, stdin, k - 1).state
                IN /\ Build(s.n_site, s.n_day, stdin, k).state = Scan(stdin, k).state
                   /\ (ln # <<>> /\ st = 1 /\ IsDigitLeading(ln[1])) =>
                        ln[1].n \in 1..s.n_site
                   /\ (ln # <<>> /\ st = 2) =>
                        ln[1].n \in 1..s.n_site /\ ln[2].n \in 1..s.n_day

\* an accepted input with site and window records and a blank line
C17_Witness ==
    /\ phase = "accepted" /\ ~reused /\ otp.n_site >= 1 /\ otp.n_day >= 1
    /\ \E k \in 1..Len(stdin) : Split(stdin[k]) = <<>>

\* C18: along the lines of any input, as long as no line has rejected it,
\* the validator's state stays or goes up by one and ends at 2 at most; a
\* blank line changes nothing; the state goes up exactly at a line that is
\* the header of that state, which changes nothing else, and a header met
\* again rejects; in state 2 a non-blank line either rejects the input or is
\* a window record of four numerals that adds its (site, day) pair and
\* leaves the sites as they are; and a rejection is the outcome of the input.
C18_StateMovesForward ==
    (phase \in {"accepted", "rejected"} /\ ~reused) =>
      \A k \in 1..Len(stdin) :
         LET s == Scan(stdin, k - 1)
             t == Scan(stdin, k)
             ln == Split(stdin[k])
         IN s.exn = NoExn =>
              /\ t.state \in {s.state, s.state + 1} /\ t.state <= 2
              /\ ln = <<>> => t = s
              /\ t.state = s.state + 1 <=>
                   (t.exn = NoExn /\ \/ s.state = 0 /\ ln = Header1
                                     \/ s.state = 1 /\ ln = Header2)
              /\ t.state = s.state + 1 =>
                   /\ t.sites = s.sites /\ t.locations = s.locations
                   /\ t.sitedays = s.sitedays /\ t.n_site = s.n_site /\ t.n_day = s.n_day
              /\ (s.state >= 1 /\ ln = Header1) => t.exn # NoExn
              /\ (s.state = 2 /\ ln = Header2) => t.exn # NoExn
              /\ (s.state = 2 /\ ln # <<>> /\ t.exn = NoExn) =>
                   /\ Len(ln) = 4 /\ AllInts(ln)
                   /\ <<ln[1].n, ln[2].n>> \notin s.sitedays
                   /\ t.sitedays = s.sitedays \cup {<<ln[1].n, ln[2].n>>}
                   /\ t.sites = s.sites /\ t.locations = s.locations
                   /\ t.n_site = s.n_site
              /\ t.exn # NoExn => (phase = "rejected" /\ verdict = t.exn)

\* an input rejected at a site record that follows window records
C18_Witness ==
    /\ phase = "rejected"
    /\ \E k \in 1..Len(stdin) :
         LET s == Scan(stdin, k - 1)
         IN /\ s.exn = NoExn /\ s.state = 2 /\ s.sitedays # {}
            /\ Len(Split(stdin[k])) = 5 /\ AllInts(Split(stdin[k]))
            /\ Scan(stdin, k).exn # NoExn

====
